---------------------------- MODULE Spec2Model ----------------------------
(***************************************************************************)
(* Flight-data generator (src/src/main.rs): plane_count producer tasks     *)
(* (generate_data) share an AtomicU64 row budget (total_rows), a counting  *)
(* semaphore (sem) and a mutex around the QuestDB Sender (sender).  Each   *)
(* producer owns a Buffer and a rows_generated counter.  main spawns the   *)
(* producers, joins them and reports opt.total_rows - total_rows.          *)
(*                                                                         *)
(* A step of a producer is the code between two points at which another    *)
(* task can observe or change shared state: the atomic load, the atomic    *)
(* fetch_sub, the semaphore acquire, the mutex lock, the flush call and    *)
(* the two guard drops.  The tokio runtime is multi-threaded, so the load  *)
(* at line 107 and the fetch_sub at line 126 of one producer can be        *)
(* separated by steps of other producers.                                  *)
(***************************************************************************)
EXTENDS Integers, Sequences, FiniteSets, TLC

\* ----------------------------------------------------------------- bounds
\* Largest plane_count, total_rows and batch_size drawn by Init.
MaxPlanes == 2
MaxRows == 2
MaxBatch == 2
\* Most flush calls that may fail in one run.
MaxFailures == 1
\* Width in bits of the modelled AtomicU64 (64 in the program).
WordBits == 4
\* rows_generated is never bounded by the program: once the budget counter
\* has wrapped the producers go on for some 2^64 rows.  The model follows a
\* run while the producers together have generated fewer than
\* RowCap(opt) rows, which is MaxOverdraw rows more than any run can
\* generate before the counter wraps.
MaxOverdraw == 1

\* Values of the budget counter: fetch_sub and main's subtraction wrap
\* modulo this.
Modulus == 2 ^ WordBits

VARIABLES
    opt,             \* the parsed options (Opt), fixed for the run
    total_rows,      \* the shared AtomicU64 budget
    sem,             \* permits available in the Semaphore
    sender,          \* holder of the Sender mutex, 0 when unlocked
    pc,              \* position of each producer task
    rows_generated,  \* rows_generated of each producer
    buffer,          \* each producer's Buffer: the rows pending
    exited,          \* how each producer left its loop
    main_pc,         \* position of main
    spawned,         \* tasks pushed by main's spawn loop
    generated_rows,  \* the total main prints
    sink,            \* rows the server accepted, per producer
    submitted,       \* per producer, rows passed to some flush call
    flushes,         \* per producer, flush calls made inside the loop
    final_flushes,   \* per producer, flush calls made after the loop
    exit_len,        \* per producer, buffer.len() when the loop was left
    failures,        \* flush calls that returned Err
    failed_rows      \* per producer, rows in its flush calls that returned Err

vars == <<opt, total_rows, sem, sender, pc, rows_generated, buffer, exited,
          main_pc, spawned, generated_rows, sink, submitted, flushes,
          final_flushes, exit_len, failures, failed_rows>>

shared == <<total_rows, sem, sender>>
mainv == <<main_pc, spawned, generated_rows>>
history == <<sink, submitted, flushes, final_flushes, exit_len, failures,
             failed_rows>>

\* ---------------------------------------------------------------- helpers
Planes == DOMAIN pc

RECURSIVE Sum(_, _)
Sum(f, S) == IF S = {} THEN 0
             ELSE LET x == CHOOSE y \in S : TRUE
                  IN f[x] + Sum(f, S \ {x})

\* AtomicU64::fetch_sub(1): the stored value after the call (wrapping).
FetchSub1(v) == (v + Modulus - 1) % Modulus

\* u64 subtraction as a release build computes it (wrapping).
WrappingSub(a, b) == (a + Modulus - b) % Modulus

\* A gate with a single permit whatever the options.
Permits_Single(o) == 1
\* Semaphore::new(plane_count as usize * opt.batch_size)
Permits(o) == o.plane_count * o.batch_size

\* The trigger of line 132 comparing the wrong remainder.
BatchReached_OffByOne(rows, batch_size) == rows % batch_size = 1
\* rows_generated % batch_size == 0
BatchReached(rows, batch_size) == rows % batch_size = 0

\* Most rows the model lets the producers generate together.  Without a
\* wrap they generate at most total_rows; with plane_count producers past
\* the check at line 107, at most total_rows + plane_count - 1 before every
\* producer that is left has seen the wrapped counter.
RowCap(o) == o.total_rows + o.plane_count + MaxOverdraw

\* The check of line 107 left out: only the value fetch_sub returns stops
\* the loop.
BudgetEmpty_Never(v) == FALSE
\* Line 107: total_rows.load(SeqCst) == 0
BudgetEmpty(v) == v = 0

\* Line 127: remaining_rows == 0, on the value fetch_sub returned.
Overdrawn(remaining) == remaining = 0

\* The check of line 147 off by one: a single pending row is not flushed.
NeedsFinalFlush_OffByOne(buf) == Len(buf) > 1
\* Line 147: buffer.len() > 0
NeedsFinalFlush(buf) == Len(buf) > 0

\* A permit that is forgotten instead of returned.
PermitsAfterDrop_Forgotten(s) == s
\* The permits available after a SemaphorePermit is dropped.
PermitsAfterDrop(s) == s + 1

\* ------------------------------------------------------------------- Init
Configs == [plane_count : 1..MaxPlanes,
            total_rows : 0..MaxRows,
            batch_size : 1..MaxBatch,
            rate_per_plane : {1}]

InitWith(o) ==
    /\ opt = o
    /\ total_rows = o.total_rows
    /\ sem = Permits(o)
    /\ sender = 0
    /\ pc = [p \in 1..o.plane_count |-> "unspawned"]
    /\ rows_generated = [p \in 1..o.plane_count |-> 0]
    /\ buffer = [p \in 1..o.plane_count |-> <<>>]
    /\ exited = [p \in 1..o.plane_count |-> "no"]
    /\ main_pc = (IF o.plane_count = 0 THEN "join" ELSE "spawn")
    /\ spawned = 0
    /\ generated_rows = 0
    /\ sink = [p \in 1..o.plane_count |-> <<>>]
    /\ submitted = [p \in 1..o.plane_count |-> 0]
    /\ flushes = [p \in 1..o.plane_count |-> 0]
    /\ final_flushes = [p \in 1..o.plane_count |-> 0]
    /\ exit_len = [p \in 1..o.plane_count |-> 0]
    /\ failures = 0
    /\ failed_rows = [p \in 1..o.plane_count |-> 0]

Init == \E o \in Configs : InitWith(o)

\* ------------------------------------------------------------------- main
\* One iteration of main's spawn loop: tokio::spawn(generate_data(...)).
Spawn ==
    /\ main_pc = "spawn"
    /\ spawned < opt.plane_count
    /\ spawned' = spawned + 1
    /\ pc' = [pc EXCEPT ![spawned + 1] = "start"]
    /\ main_pc' = IF spawned + 1 = opt.plane_count THEN "join" ELSE "spawn"
    /\ UNCHANGED <<opt, shared, rows_generated, buffer, exited,
                   generated_rows, history>>

\* join_all(tasks).await, then the report.  The subtraction overflows when
\* the counter is above opt.total_rows: a build with overflow checks panics,
\* a build without them wraps.
Join ==
    /\ main_pc = "join"
    /\ \A p \in Planes : pc[p] \in {"done", "panicked"}
    /\ IF total_rows <= opt.total_rows
       THEN /\ generated_rows' = opt.total_rows - total_rows
            /\ main_pc' = "done"
       ELSE \/ /\ generated_rows' = WrappingSub(opt.total_rows, total_rows)
               /\ main_pc' = "done"
            \/ /\ generated_rows' = generated_rows
               /\ main_pc' = "panicked"
    /\ UNCHANGED <<opt, shared, pc, rows_generated, buffer, exited, spawned,
                   history>>

\* --------------------------------------------------------------- producer
\* Lines 99-102: PlaneData::new, interval(1000 / rate), the locals.
Start(p) ==
    /\ pc[p] = "start"
    /\ pc' = [pc EXCEPT ![p] =
                IF opt.rate_per_plane = 0 \/ 1000 \div opt.rate_per_plane = 0
                THEN "panicked" ELSE "tick"]
    /\ UNCHANGED <<opt, shared, rows_generated, buffer, exited, mainv,
                   history>>

\* Lines 105-109: the tick fires and the budget is read.
Tick(p) ==
    /\ pc[p] = "tick"
    /\ Sum(rows_generated, Planes) < RowCap(opt)
    /\ IF BudgetEmpty(total_rows)
       THEN /\ pc' = [pc EXCEPT ![p] = "drain"]
            /\ exited' = [exited EXCEPT ![p] = "empty"]
            /\ exit_len' = [exit_len EXCEPT ![p] = Len(buffer[p])]
       ELSE /\ pc' = [pc EXCEPT ![p] = "produce"]
            /\ UNCHANGED <<exited, exit_len>>
    /\ UNCHANGED <<opt, shared, rows_generated, buffer, mainv, sink,
                   submitted, flushes, final_flushes, failures, failed_rows>>

\* Position after a row was produced whose fetch_sub returned `remaining`.
AfterProduce(remaining, rows, batch_size) ==
    IF Overdrawn(remaining) THEN "drain"
    ELSE IF batch_size = 0 THEN "panicked"
    ELSE IF BatchReached(rows, batch_size) THEN "acquire"
    ELSE "tick"

\* The row put in front of the pending rows.
BufferWith_Prepended(buf, row) == <<row>> \o buf
\* Lines 114-123: buffer.table(..)...at(..) appends one row to the Buffer.
BufferWith(buf, row) == Append(buf, row)

\* Lines 111-132: the row is appended, then the budget is decremented.
Produce(p) ==
    /\ pc[p] = "produce"
    /\ LET rows == rows_generated[p] + 1
           remaining == total_rows
           buf == BufferWith(buffer[p], rows)
       IN /\ rows_generated' = [rows_generated EXCEPT ![p] = rows]
          /\ buffer' = [buffer EXCEPT ![p] = buf]
          /\ total_rows' = FetchSub1(total_rows)
          /\ pc' = [pc EXCEPT ![p] =
                       AfterProduce(remaining, rows, opt.batch_size)]
          /\ IF Overdrawn(remaining)
             THEN /\ exited' = [exited EXCEPT ![p] = "overdrawn"]
                  /\ exit_len' = [exit_len EXCEPT ![p] = Len(buf)]
             ELSE UNCHANGED <<exited, exit_len>>
    /\ UNCHANGED <<opt, sem, sender, mainv, sink, submitted, flushes,
                   final_flushes, failures, failed_rows>>

\* Line 147: buffer.len() > 0 after the loop.
Drain(p) ==
    /\ pc[p] = "drain"
    /\ pc' = [pc EXCEPT ![p] = IF NeedsFinalFlush(buffer[p]) THEN "acquire"
                               ELSE "report"]
    /\ UNCHANGED <<opt, shared, rows_generated, buffer, exited, mainv,
                   history>>

\* sem.acquire().await can complete.
PermitAvailable == sem > 0

\* Lines 133 and 148: a permit is taken.
AcquirePermit(p) ==
    /\ pc[p] = "acquire"
    /\ PermitAvailable
    /\ sem' = sem - 1
    /\ pc' = [pc EXCEPT ![p] = "lock"]
    /\ UNCHANGED <<opt, total_rows, sender, rows_generated, buffer, exited,
                   mainv, history>>

\* The Sender shared without the mutex: lock() never waits.
LockFree_Unguarded == TRUE
\* sender.lock().await can complete.
LockFree == sender = 0

\* Lines 134 and 149: the Sender mutex is taken.
AcquireLock(p) ==
    /\ pc[p] = "lock"
    /\ LockFree
    /\ sender' = p
    /\ pc' = [pc EXCEPT ![p] = "flush"]
    /\ UNCHANGED <<opt, total_rows, sem, rows_generated, buffer, exited,
                   mainv, history>>

\* The Buffer after sender.flush(&mut buffer): Sender::flush clears the
\* buffer when the rows were sent and leaves it as it was on an error.
FlushedBuffer(buf, ok) == IF ok THEN <<>> ELSE buf

\* The units of a batch that failed given back to the budget.
BudgetAfterFlush_Refunded(v, buf, ok) ==
    IF ok THEN v ELSE (v + Len(buf)) % Modulus
\* Lines 135-142 and 150: the result of flush is printed or discarded;
\* total_rows is not written on either path.
BudgetAfterFlush(v, buf, ok) == v

\* Lines 136-141 and 150: sender.flush(&mut buffer), Ok or Err.
Flush(p) ==
    /\ pc[p] = "flush"
    /\ \E ok \in BOOLEAN :
        /\ ok \/ failures < MaxFailures
        /\ buffer' = [buffer EXCEPT ![p] = FlushedBuffer(buffer[p], ok)]
        /\ sink' = [sink EXCEPT ![p] = IF ok THEN sink[p] \o buffer[p]
                                       ELSE sink[p]]
        /\ failures' = IF ok THEN failures ELSE failures + 1
        /\ failed_rows' = [failed_rows EXCEPT ![p] =
                              IF ok THEN failed_rows[p]
                              ELSE failed_rows[p] + Len(buffer[p])]
        /\ total_rows' = BudgetAfterFlush(total_rows, buffer[p], ok)
    /\ submitted' = [submitted EXCEPT ![p] = rows_generated[p]]
    /\ IF exited[p] = "no"
       THEN /\ flushes' = [flushes EXCEPT ![p] = flushes[p] + 1]
            /\ UNCHANGED final_flushes
       ELSE /\ final_flushes' = [final_flushes EXCEPT ![p] =
                                    final_flushes[p] + 1]
            /\ UNCHANGED flushes
    /\ pc' = [pc EXCEPT ![p] = "unlock"]
    /\ UNCHANGED <<opt, sem, sender, rows_generated, exited, mainv,
                   exit_len>>

\* A MutexGuard that is leaked instead of dropped.
MutexAfterDrop_Leaked(holder) == holder
\* The holder of the Sender mutex after the MutexGuard is dropped.
MutexAfterDrop(holder) == 0

\* End of the flush block: the MutexGuard is dropped first.
ReleaseLock(p) ==
    /\ pc[p] = "unlock"
    /\ sender' = MutexAfterDrop(sender)
    /\ pc' = [pc EXCEPT ![p] = "release"]
    /\ UNCHANGED <<opt, total_rows, sem, rows_generated, buffer, exited,
                   mainv, history>>

\* Then the SemaphorePermit is dropped; the loop goes on, or the task ends.
ReleasePermit(p) ==
    /\ pc[p] = "release"
    /\ sem' = PermitsAfterDrop(sem)
    /\ pc' = [pc EXCEPT ![p] = IF exited[p] = "no" THEN "tick" ELSE "report"]
    /\ UNCHANGED <<opt, total_rows, sender, rows_generated, buffer, exited,
                   mainv, history>>

\* Lines 153-156: the per-plane report; the task completes.
Report(p) ==
    /\ pc[p] = "report"
    /\ pc' = [pc EXCEPT ![p] = "done"]
    /\ UNCHANGED <<opt, shared, rows_generated, buffer, exited, mainv,
                   history>>

Next ==
    \/ Spawn
    \/ Join
    \/ \E p \in Planes : Start(p)
    \/ \E p \in Planes : Tick(p)
    \/ \E p \in Planes : Produce(p)
    \/ \E p \in Planes : Drain(p)
    \/ \E p \in Planes : AcquirePermit(p)
    \/ \E p \in Planes : AcquireLock(p)
    \/ \E p \in Planes : Flush(p)
    \/ \E p \in Planes : ReleaseLock(p)
    \/ \E p \in Planes : ReleasePermit(p)
    \/ \E p \in Planes : Report(p)

Spec == Init /\ [][Next]_vars

\* Every value the option types admit (u64, u32, usize), zero included:
\* main passes the options on as parsed.
AnyConfigs == [plane_count : 0..MaxPlanes,
               total_rows : 0..MaxRows,
               batch_size : 0..MaxBatch,
               rate_per_plane : {0, 1}]
AnyInit == \E o \in AnyConfigs : InitWith(o)
AnySpec == AnyInit /\ [][Next]_vars

\* The steps of producer p that never wait: the tick, the synchronous code
\* and the guard drops.
Running(p) ==
    /\ p \in Planes
    /\ \/ Start(p) \/ Tick(p) \/ Produce(p) \/ Drain(p) \/ Flush(p)
       \/ ReleaseLock(p) \/ ReleasePermit(p) \/ Report(p)

\* The runtime polls every task that can run, the interval always fires,
\* and tokio's Semaphore and Mutex serve their waiters first come first
\* served, so a waiter is not passed over for ever.
Fairness ==
    /\ WF_vars(Spawn)
    /\ WF_vars(Join)
    /\ \A p \in 1..(MaxPlanes + 1) :
          /\ WF_vars(Running(p))
          /\ SF_vars(p \in Planes /\ AcquirePermit(p))
          /\ SF_vars(p \in Planes /\ AcquireLock(p))

FairSpec == Init /\ [][Next]_vars /\ Fairness

\* The end-to-end scenario entity_count=3, total_rows=10, batch_size=4.
Scenario == [plane_count |-> 3, total_rows |-> 10, batch_size |-> 4,
             rate_per_plane |-> 1]
ScenarioInit == InitWith(Scenario)
ScenarioSpec == ScenarioInit /\ [][Next]_vars

\* ------------------------------------------------------------- properties
Min(a, b) == IF a < b THEN a ELSE b

\* Rows generated by all producers together.
Generated == Sum(rows_generated, Planes)

\* Producers past the budget check of line 107 that have not yet
\* decremented the budget.
InFlight == {p \in Planes : pc[p] = "produce"}

\* Budget checks performed so far, and those that passed.
Attempts == Generated + Cardinality(InFlight)
            + Cardinality({p \in Planes : exited[p] = "empty"})
Successes == Generated + Cardinality(InFlight)

\* Producers holding a permit, and producers holding the Sender mutex.
PermitHolders == {p \in Planes : pc[p] \in {"lock", "flush", "unlock", "release"}}
LockHolders == {p \in Planes : pc[p] \in {"flush", "unlock"}}

AllTerminated == \A p \in Planes : pc[p] = "done"

Range(seq) == {seq[i] : i \in 1..Len(seq)}

\* C1: the shared remaining-rows counter stays within 0..B in every
\* reachable state; no interleaving of load and fetch_sub wraps it.
C1_BudgetWithinRange == total_rows \in 0..opt.total_rows

\* C2: of N budget checks against an initial budget B exactly min(N, B)
\* pass, and once no producer is between its check and its decrement the
\* counter is B - min(N, B).
C2_ClaimsAreMinOfAttemptsAndBudget ==
    /\ Successes = Min(Attempts, opt.total_rows)
    /\ InFlight = {} =>
          total_rows = opt.total_rows - Min(Attempts, opt.total_rows)

\* C3: a row whose decrement found the budget already at zero is never held
\* in a batch nor passed to the sink, and the rows submitted to the sink
\* never exceed the initial budget.
C3_FailedClaimRecordsNoRow ==
    /\ \A p \in Planes :
          exited[p] = "overdrawn" =>
             /\ rows_generated[p] \notin Range(buffer[p])
             /\ rows_generated[p] \notin Range(sink[p])
             /\ submitted[p] < rows_generated[p]
    /\ Sum(submitted, Planes) <= opt.total_rows

\* C4: main's subtraction never underflows, and the total it reports is the
\* sum of the producers' rows_generated and lies in 0..total_rows.
C4_ReportedTotalIsRowsGenerated ==
    /\ main_pc # "panicked"
    /\ main_pc = "done" =>
          /\ generated_rows = Generated
          /\ generated_rows \in 0..opt.total_rows

\* C5: the run ends at budget exhaustion: when every producer has
\* terminated the producers have together produced at most B rows and the
\* budget is spent.
C5_EndsAtBudgetExhaustion ==
    AllTerminated => /\ Generated <= opt.total_rows
                     /\ total_rows = 0

\* C6: at most one producer is between acquiring and releasing the Sender
\* mutex, in the in-loop flush and in the final flush alike, and that
\* producer is the one the mutex records.
C6_SinkMutualExclusion ==
    /\ Cardinality(LockHolders) <= 1
    /\ \A p \in LockHolders : sender = p

C6_Witness ==
    \E p, q \in Planes :
        /\ pc[p] = "flush" /\ exited[p] # "no"
        /\ pc[q] = "lock" /\ exited[q] = "no"

\* C7: the producers holding a permit are never more than the capacity
\* plane_count * batch_size, and permits held plus permits available is
\* that capacity.
C7_PermitsConserved ==
    /\ Cardinality(PermitHolders) <= opt.plane_count * opt.batch_size
    /\ Cardinality(PermitHolders) + sem = opt.plane_count * opt.batch_size

C7_Witness ==
    /\ Cardinality(PermitHolders) = 2
    /\ sem = Permits(opt) - 2
    /\ \E p, q \in PermitHolders : exited[p] = "no" /\ exited[q] # "no"

\* C8: a producer that left its loop with a non-empty buffer makes exactly
\* one final flush call before it terminates, one that left it with an empty
\* buffer makes none, and a terminated producer has passed every row it
\* appended to some flush call.
C8_ResidualFlushedOnce ==
    \A p \in Planes :
        /\ final_flushes[p] <= 1
        /\ pc[p] \in {"report", "done"} =>
              /\ final_flushes[p] = (IF exit_len[p] > 0 THEN 1 ELSE 0)
              /\ submitted[p] = rows_generated[p]

C8_Witness ==
    \E p, q \in Planes :
        /\ pc[p] = "done" /\ exit_len[p] > 0 /\ final_flushes[p] = 1
        /\ pc[q] = "done" /\ exit_len[q] = 0 /\ rows_generated[q] > 0

\* C9: with total_rows = 0 every producer fails its first budget check and
\* terminates without a panic having produced nothing, no permit and no lock
\* is ever taken, the budget stays 0 and main reports 0.
C9_ZeroBudget ==
    opt.total_rows = 0 =>
       /\ total_rows = 0
       /\ sem = Permits(opt) /\ sender = 0
       /\ main_pc # "panicked"
       /\ main_pc = "done" => generated_rows = 0
       /\ \A p \in Planes :
             /\ pc[p] \in {"unspawned", "start", "tick", "drain", "report",
                           "done"}
             /\ rows_generated[p] = 0 /\ buffer[p] = <<>>
             /\ flushes[p] = 0 /\ final_flushes[p] = 0
             /\ submitted[p] = 0 /\ sink[p] = <<>>

C9_Witness ==
    /\ opt.total_rows = 0 /\ opt.plane_count = 2
    /\ main_pc = "done" /\ generated_rows = 0
    /\ \A p \in Planes : exited[p] = "empty"

\* C10: in the scenario of 3 producers, 10 rows and batches of 4, when all
\* producers have terminated their row counts sum to 10, each producer has
\* flushed at least once, no final drain carried more than 3 rows, and
\* without a transmission failure main reports 10.
C10_ScenarioClaimsExactlyTen ==
    opt = Scenario =>
       /\ AllTerminated =>
             /\ Generated = 10
             /\ \A p \in Planes : flushes[p] + final_flushes[p] >= 1
       /\ \A p \in Planes : final_flushes[p] > 0 => exit_len[p] <= 3
       /\ (main_pc = "done" /\ failures = 0) => generated_rows = 10
       /\ (AllTerminated /\ failures = 0) => main_pc # "panicked"

\* Rows the sink accepted from all producers together.
Delivered == Sum([p \in Planes |-> Len(sink[p])], Planes)

\* Rows that were in flush calls that returned Err.
FailedRows == Sum(failed_rows, Planes)

CapReached == Generated >= RowCap(opt)

\* A step in which a flush call returned Err.
FlushFailed == failures' = failures + 1

\* C12: a flush call that fails leaves the budget, the permits and the mutex
\* as they were and changes no other producer's position, buffer or rows;
\* the producer goes on to drop the mutex guard and the permit, and every
\* producer, the failing one included, goes on to terminate (as far as the
\* model follows the run).
C12_FailureIsNotFatal ==
    /\ [][FlushFailed =>
            /\ total_rows' = total_rows /\ sem' = sem /\ sender' = sender
            /\ \E p \in Planes :
                  /\ pc[p] = "flush" /\ pc'[p] = "unlock"
                  /\ \A q \in Planes \ {p} :
                        /\ pc'[q] = pc[q]
                        /\ buffer'[q] = buffer[q]
                        /\ rows_generated'[q] = rows_generated[q]]_vars
    /\ \A p \in 1..(MaxPlanes + 1) :
          (p \in Planes /\ pc[p] = "unlock" /\ failed_rows[p] > 0)
             ~> (p \in Planes /\ pc[p] \in {"tick", "report"} /\ sender # p)
    /\ (failures > 0) ~> (AllTerminated \/ CapReached)

C12_Witness ==
    /\ AllTerminated /\ ~CapReached
    /\ opt.plane_count = 2
    /\ \E p, q \in Planes :
          /\ failed_rows[p] > 0 /\ flushes[p] > 0 /\ final_flushes[p] > 0
          /\ failed_rows[q] = 0 /\ Len(sink[q]) > 0

\* rate = 0, entity_count = 0 or batch_size = 0.
InvalidConfig(o) ==
    o.rate_per_plane = 0 \/ o.plane_count = 0 \/ o.batch_size = 0

\* C13: with rate = 0, entity_count = 0 or batch_size = 0 the run fails
\* before any producer is spawned: no producer ever leaves "unspawned", no
\* budget unit is claimed, nothing is passed to the sink and main does not
\* complete with a report.
C13_InvalidConfigRejected ==
    InvalidConfig(opt) =>
       /\ spawned = 0
       /\ \A p \in Planes : pc[p] = "unspawned"
       /\ total_rows = opt.total_rows
       /\ \A p \in Planes : submitted[p] = 0
       /\ main_pc # "done"

StrictlyIncreasing(seq) ==
    \A i, j \in 1..Len(seq) : i < j => seq[i] < seq[j]

\* C14: the rows the sink accepted from a producer, over all its flush
\* calls, are in the order the producer generated them, and the rows still
\* pending in its buffer follow them in that order.
C14_PerProducerOrder ==
    \A p \in Planes :
        /\ StrictlyIncreasing(sink[p] \o buffer[p])
        /\ \A r \in Range(sink[p]) \cup Range(buffer[p]) :
              r \in 1..rows_generated[p]

C14_Witness ==
    /\ opt.plane_count = 2
    /\ \E p, q \in Planes :
          /\ p # q
          /\ sink[p] = <<1, 2>> /\ flushes[p] = 2 /\ failed_rows[p] = 1
          /\ pc[q] = "done"

\* The step of producer p from one position of the flush protocol to the
\* next, with what it does to the permits and the mutex.
ProtocolStep(p) ==
    CASE pc[p] = "acquire" ->
            pc'[p] = "lock" /\ sem' = sem - 1 /\ sender' = sender
      [] pc[p] = "lock" ->
            pc'[p] = "flush" /\ sem' = sem /\ sender = 0 /\ sender' = p
      [] pc[p] = "flush" ->
            pc'[p] = "unlock" /\ sem' = sem /\ sender' = sender
      [] pc[p] = "unlock" ->
            pc'[p] = "release" /\ sem' = sem /\ sender = p /\ sender' = 0
      [] pc[p] = "release" ->
            pc'[p] \in {"tick", "report"} /\ sem' = sem + 1 /\ sender' = sender
      [] OTHER ->
            /\ pc'[p] \notin {"lock", "flush", "unlock", "release"}
            /\ sem' = sem /\ sender' = sender

\* C15: every flush, whether the call returns Ok or Err, goes permit ->
\* mutex -> flush call -> mutex dropped -> permit dropped; the mutex is held
\* only by a producer that holds a permit, no producer waits for a permit
\* while it holds the mutex, and a producer that awaits a tick or has left
\* its flush block holds neither.
C15_FlushProtocolOrder ==
    /\ [](\A p \in Planes : sender = p => p \in LockHolders)
    /\ [](LockHolders \subseteq PermitHolders)
    /\ [](PermitHolders = {} => (sem = Permits(opt) /\ sender = 0))
    /\ [][\A p \in Planes : pc'[p] # pc[p] => ProtocolStep(p)]_vars

C15_Witness ==
    \E p \in Planes :
        /\ pc[p] = "release" /\ failed_rows[p] > 0 /\ buffer[p] # <<>>
        /\ sender = 0 /\ sem = Permits(opt) - 1

\* C16: whenever a producer awaits its next tick and none of its flush
\* calls has failed, its buffer holds fewer than batch_size rows: the rows
\* generated since the last multiple of batch_size.
C16_BatchBelowSizeAtTick ==
    \A p \in Planes :
        (pc[p] = "tick" /\ failed_rows[p] = 0) =>
            /\ Len(buffer[p]) < opt.batch_size
            /\ Len(buffer[p]) = rows_generated[p] % opt.batch_size

C16_Witness ==
    \E p \in Planes :
        /\ pc[p] = "tick" /\ failed_rows[p] = 0
        /\ flushes[p] > 0 /\ rows_generated[p] = opt.batch_size
        /\ opt.batch_size > 1 /\ buffer[p] = <<>>

\* C17: a flush call that fails drops its batch: after every flush call
\* the producer's buffer is empty, and no row handed to a flush call was in
\* an earlier flush call of that producer.
C17_FailedBatchDropped ==
    [][\A p \in Planes :
          (pc[p] = "flush" /\ pc'[p] = "unlock") =>
              /\ buffer'[p] = <<>>
              /\ \A i \in 1..Len(buffer[p]) : buffer[p][i] > submitted[p]]_vars

\* Any step of producer p, the two waits included.
ProducerStep(p) ==
    Running(p) \/ (p \in Planes /\ (AcquirePermit(p) \/ AcquireLock(p)))

\* Producer p can take a step. The interval of line 105 always fires; the
\* model stops following producers at that await once CapReached.
CanStep(p) ==
    \/ ENABLED ProducerStep(p)
    \/ p \in Planes /\ pc[p] = "tick" /\ CapReached

\* Producers that were spawned and have not returned.
Alive == {p \in Planes : pc[p] \notin {"unspawned", "done", "panicked"}}

\* Producers suspended in acquire() or lock().
Waiting(p) == p \in Planes /\ pc[p] \in {"acquire", "lock"}

\* C18: while some spawned producer has not terminated one of them can take
\* a step, and under fair scheduling a producer waiting for a permit or for
\* the Sender mutex gets it, completes its flush call and drops the guard.
C18_NoDeadlock ==
    /\ [](Alive # {} => \E p \in Alive : CanStep(p))
    /\ \A p \in 1..(MaxPlanes + 1) :
          Waiting(p) ~> (p \in Planes /\ pc[p] = "release")

C18_Witness ==
    \E p, q \in Planes :
        /\ pc[p] = "lock" /\ sender = q /\ pc[q] = "flush"
        /\ ~ENABLED ProducerStep(p) /\ CanStep(q)

\* The budget counter tracks the only producer's rows exactly: no wrap.
SingleProducerCounts ==
    /\ rows_generated[1] <= opt.total_rows
    /\ total_rows = opt.total_rows - rows_generated[1]
    /\ main_pc # "panicked"
    /\ pc[1] = "done" =>
          /\ rows_generated[1] = opt.total_rows
          /\ submitted[1] = opt.total_rows
          /\ flushes[1] = opt.total_rows \div opt.batch_size
          /\ final_flushes[1] <= 1
    /\ main_pc = "done" => generated_rows = opt.total_rows

\* C19: with plane_count = 1 the counter goes from the budget B down to 0
\* without wrapping, the producer generates exactly B rows, hands all of
\* them to flush calls, each in-loop call carrying batch_size rows, with at
\* most one residual call, and main reports B.
C19_SingleProducerExact ==
    /\ [](opt.plane_count = 1 => SingleProducerCounts)
    /\ [][(opt.plane_count = 1 /\ pc[1] = "flush" /\ pc'[1] = "unlock"
              /\ exited[1] = "no")
          => Len(buffer[1]) = opt.batch_size]_vars

\* C20: the gate never suspends a producer: every permit missing from the
\* semaphore is held by a different producer, so a producer that calls
\* acquire() finds a permit available.
C20_GateNeverSuspends ==
    /\ sem = Permits(opt) - Cardinality(PermitHolders)
    /\ \A p \in Planes : pc[p] = "acquire" => PermitAvailable

C20_Witness ==
    \E p, q \in Planes :
        /\ p # q /\ pc[p] = "acquire" /\ pc[q] = "flush" /\ sender = q
        /\ sem = Permits(opt) - 1 /\ PermitAvailable

=============================================================================
